---- MODULE Spec2Model ----
(***************************************************************************)
(* Electricity tariff comparison tool (energy_app.py, energy_app_2.py).     *)
(*                                                                         *)
(* Both files are Streamlit scripts: every user interaction (a widget      *)
(* edit, a button click, a plain rerun) executes the script once from top  *)
(* to bottom.  One action of this model is one such execution.             *)
(*                                                                         *)
(* Numbers.  Consumption figures are Python ints.  Rates are entered with  *)
(* two decimals and are held here as integers in hundredths of a penny     *)
(* (22.21 p/kWh is 2221).  Money amounts computed by the script are exact  *)
(* decimals with eight fractional digits, held as three limbs              *)
(* [w, f1, f2] meaning w + f1/10^4 + f2/10^8; every product and quotient   *)
(* of calculate_yearly_cost is exact at that precision, so the model       *)
(* follows the formula without the rounding of binary floating point.      *)
(* Supplier names are tuples of one-character strings.                     *)
(***************************************************************************)
EXTENDS Integers, Sequences, FiniteSets, TLC

\* ------------------------------------------------------------------------
\* Bounds of the model
\* ------------------------------------------------------------------------

\* cap on the number of custom tariffs a session accumulates
MaxCustom == 2

\* values the user gives to the consumption widgets (kWh per month)
DayUnitsInputs == {392, 402}
NightUnitsInputs == {49, 59}

\* values the user gives to the current-tariff widgets (hundredths of a penny)
DayRateInputs == {2221, 2231}
NightRateInputs == {1580, 1590}
StandingChargeInputs == {5774, 5784}

\* values the user gives to the fields of the custom-tariff form
SupplierInputs == { <<>>, <<" ">>, <<"A">> }
NewDayRateInputs == {0, 10}
NewNightRateInputs == {0, 20}
NewStandingChargeInputs == {0, 30}

\* the contents the custom-tariff form passes through, one field edit at a time:
\* <<name, day rate, night rate, standing charge>>
NewTariffForms ==
    { << <<>>, 0, 0, 0 >>, << <<>>, 10, 0, 0 >>, << <<>>, 10, 20, 0 >>,
      << <<>>, 10, 20, 30 >>, << <<" ">>, 10, 20, 30 >>, << <<"A">>, 10, 20, 30 >>,
      << <<"A">>, 0, 20, 30 >> }

\* rates at which the cost formula is evaluated beside the session's own
ProbeRates == {0, 1, 3105}

\* ------------------------------------------------------------------------
\* Exact decimal arithmetic
\* ------------------------------------------------------------------------

\* one limb holds four decimal digits
Limb == 100 * 100

FromHundredths(h) ==
    [w |-> h \div 100, f1 |-> (h % 100) * 100, f2 |-> 0]

DecAdd(a, b) ==
    LET s2 == a.f2 + b.f2
        s1 == a.f1 + b.f1 + (s2 \div Limb)
    IN  [w |-> a.w + b.w + (s1 \div Limb), f1 |-> s1 % Limb, f2 |-> s2 % Limb]

DecMulInt(a, k) ==
    LET p2 == a.f2 * k
        p1 == a.f1 * k + (p2 \div Limb)
    IN  [w |-> a.w * k + (p1 \div Limb), f1 |-> p1 % Limb, f2 |-> p2 % Limb]

\* long division by a small integer, to eight fractional digits
DecDivInt(a, k) ==
    LET n1 == (a.w % k) * Limb + a.f1
        n2 == (n1 % k) * Limb + a.f2
    IN  [w |-> a.w \div k, f1 |-> n1 \div k, f2 |-> n2 \div k]

\* multiplication by a decimal literal num/den (365.25 is 36525/100)
DecMulLit(a, num, den) == DecDivInt(DecMulInt(a, num), den)

DecLeq(a, b) ==
    \/ a.w < b.w
    \/ a.w = b.w /\ a.f1 < b.f1
    \/ a.w = b.w /\ a.f1 = b.f1 /\ a.f2 <= b.f2

\* f"{x:,.2f}": the amount rounded to two decimals, as a number of pence
FormatPence(x) ==
    LET pence == x.w * 100 + (x.f1 \div 100)
        rest  == (x.f1 % 100) * Limb + x.f2
        half  == 500000
    IN  IF rest > half THEN pence + 1
        ELSE IF rest < half THEN pence
        ELSE IF pence % 2 = 0 THEN pence ELSE pence + 1

\* ------------------------------------------------------------------------
\* calculate_yearly_cost, as written in each of the two files
\* ------------------------------------------------------------------------

\* variants of calculate_yearly_cost with one slip each
DecSub(a, b) ==
    LET d2 == a.f2 - b.f2
        d1 == a.f1 - b.f1 + (d2 \div Limb)
    IN  [w |-> a.w - b.w + (d1 \div Limb), f1 |-> d1 % Limb, f2 |-> d2 % Limb]

\* VAT at 20% instead of 5%
calculate_yearly_cost_vat20(day_units_month, night_units_month, day_rate_p, night_rate_p, standing_charge_p) ==
    LET yearly_day_cost_p == DecMulInt(FromHundredths(day_rate_p), day_units_month * 12)
        yearly_night_cost_p == DecMulInt(FromHundredths(night_rate_p), night_units_month * 12)
        yearly_standing_cost_p == DecMulLit(FromHundredths(standing_charge_p), 36525, 100)
        total_cost_before_vat_p ==
            DecAdd(DecAdd(yearly_day_cost_p, yearly_night_cost_p), yearly_standing_cost_p)
    IN  DecDivInt(DecMulLit(total_cost_before_vat_p, 120, 100), 100)

\* a year of 365 days instead of 365.25
calculate_yearly_cost_365(day_units_month, night_units_month, day_rate_p, night_rate_p, standing_charge_p) ==
    LET yearly_day_cost_p == DecMulInt(FromHundredths(day_rate_p), day_units_month * 12)
        yearly_night_cost_p == DecMulInt(FromHundredths(night_rate_p), night_units_month * 12)
        yearly_standing_cost_p == DecMulInt(FromHundredths(standing_charge_p), 365)
        total_cost_before_vat_p ==
            DecAdd(DecAdd(yearly_day_cost_p, yearly_night_cost_p), yearly_standing_cost_p)
    IN  DecDivInt(DecMulLit(total_cost_before_vat_p, 105, 100), 100)

\* the standing charge subtracted instead of added
calculate_yearly_cost_minus(day_units_month, night_units_month, day_rate_p, night_rate_p, standing_charge_p) ==
    LET yearly_day_cost_p == DecMulInt(FromHundredths(day_rate_p), day_units_month * 12)
        yearly_night_cost_p == DecMulInt(FromHundredths(night_rate_p), night_units_month * 12)
        yearly_standing_cost_p == DecMulLit(FromHundredths(standing_charge_p), 36525, 100)
        total_cost_before_vat_p ==
            DecSub(DecAdd(yearly_day_cost_p, yearly_night_cost_p), yearly_standing_cost_p)
    IN  DecDivInt(DecMulLit(total_cost_before_vat_p, 105, 100), 100)

\* energy_app_2.py; rates in hundredths of a penny, result in pounds
calculate_yearly_cost_app_2(day_units_month, night_units_month, day_rate_p, night_rate_p, standing_charge_p) ==
    LET MONTHS_IN_YEAR == 12
        yearly_day_units == day_units_month * MONTHS_IN_YEAR
        yearly_night_units == night_units_month * MONTHS_IN_YEAR
        yearly_day_cost_p == DecMulInt(FromHundredths(day_rate_p), yearly_day_units)
        yearly_night_cost_p == DecMulInt(FromHundredths(night_rate_p), yearly_night_units)
        \* AVG_DAYS_IN_YEAR = 365.25
        yearly_standing_cost_p == DecMulLit(FromHundredths(standing_charge_p), 36525, 100)
        total_cost_before_vat_p ==
            DecAdd(DecAdd(yearly_day_cost_p, yearly_night_cost_p), yearly_standing_cost_p)
        \* VAT_RATE = 1.05, then pence to pounds
        total_yearly_cost_pounds == DecDivInt(DecMulLit(total_cost_before_vat_p, 105, 100), 100)
    IN  total_yearly_cost_pounds

\* energy_app.py
calculate_yearly_cost_app(day_units_month, night_units_month, day_rate_p, night_rate_p, standing_charge_p) ==
    LET MONTHS_IN_YEAR == 12
        yearly_day_units == day_units_month * MONTHS_IN_YEAR
        yearly_night_units == night_units_month * MONTHS_IN_YEAR
        yearly_day_cost_p == DecMulInt(FromHundredths(day_rate_p), yearly_day_units)
        yearly_night_cost_p == DecMulInt(FromHundredths(night_rate_p), yearly_night_units)
        yearly_standing_cost_p == DecMulLit(FromHundredths(standing_charge_p), 36525, 100)
        total_cost_before_vat_p ==
            DecAdd(DecAdd(yearly_day_cost_p, yearly_night_cost_p), yearly_standing_cost_p)
        total_yearly_cost_pounds == DecDivInt(DecMulLit(total_cost_before_vat_p, 105, 100), 100)
    IN  total_yearly_cost_pounds

\* ------------------------------------------------------------------------
\* The built-in tariff table (the literal `data` of both files)
\* ------------------------------------------------------------------------

data ==
    [Supplier |-> << <<"O","V","O">>,
                   <<"F","u","s","e"," ","1">>,
                   <<"F","u","s","e"," ","2">>,
                   <<"F","u","s","e"," ","3">>,
                   <<"O","V","O"," ","S","i","m","p","l","e","r">>,
                   <<"O","c","t","o","p","u","s">>,
                   <<"F","u","s","e"," ","4">> >>,
     DayRate |-> <<2221, 2524, 2465, 2491, 2740, 3105, 2190>>,
     NightRate |-> <<1580, 1764, 2465, 1759, 1948, 1379, 2190>>,
     StandingCharge |-> <<5774, 4240, 4794, 4030, 5050, 4954, 4704>>]

\* pd.DataFrame(data): one row per position of the columns
DataFrame(d) ==
    [i \in 1..Len(d.Supplier) |->
        [Supplier |-> d.Supplier[i], DayRate |-> d.DayRate[i],
         NightRate |-> d.NightRate[i], StandingCharge |-> d.StandingCharge[i]]]

YourCurrentTariff == <<"Y","o","u","r"," ","C","u","r","r","e","n","t"," ","T","a","r","i","f","f">>

\* ------------------------------------------------------------------------
\* State
\* ------------------------------------------------------------------------

VARIABLES
    script,                  \* which file the session runs
    custom_tariffs,          \* st.session_state.custom_tariffs
    day_consumption,         \* widget values, as returned in the latest run
    night_consumption,
    current_day_rate,
    current_night_rate,
    current_standing_charge,
    new_supplier,
    new_day_rate,
    new_night_rate,
    new_standing_charge,
    message,                 \* st.success / st.warning of the add button, or "none"
    tariffs_df,              \* results of the latest run
    comparison_df,
    current_tariff_cost,
    all_tariffs_for_chart,
    metric                   \* "Your Estimated Yearly Cost", in pence

widgets ==
    <<day_consumption, night_consumption, current_day_rate, current_night_rate,
      current_standing_charge, new_supplier, new_day_rate, new_night_rate,
      new_standing_charge>>

results ==
    <<message, tariffs_df, comparison_df, current_tariff_cost, all_tariffs_for_chart, metric>>

vars == <<script, custom_tariffs, widgets, results>>

\* the widget values of the latest run, as one record
Widgets ==
    [day_consumption |-> day_consumption,
     night_consumption |-> night_consumption,
     current_day_rate |-> current_day_rate,
     current_night_rate |-> current_night_rate,
     current_standing_charge |-> current_standing_charge,
     new_supplier |-> new_supplier,
     new_day_rate |-> new_day_rate,
     new_night_rate |-> new_night_rate,
     new_standing_charge |-> new_standing_charge]

\* the values the widgets are created with
DefaultWidgets ==
    [day_consumption |-> 392,
     night_consumption |-> 49,
     current_day_rate |-> 2221,
     current_night_rate |-> 1580,
     current_standing_charge |-> 5774,
     new_supplier |-> <<>>,
     new_day_rate |-> 0,
     new_night_rate |-> 0,
     new_standing_charge |-> 0]

\* ------------------------------------------------------------------------
\* One execution of energy_app_2.py
\* ------------------------------------------------------------------------

\* truth value of a Python str
Truthy(s) == Len(s) > 0

\* the dict the add button appends
NewTariff(w) ==
    [Supplier |-> w.new_supplier, DayRate |-> w.new_day_rate,
     NightRate |-> w.new_night_rate, StandingCharge |-> w.new_standing_charge]

\* variants of the add handler with one slip each
\* the new tariff inserted at the front
AddTariffButton_front(session, clicked, w) ==
    IF clicked /\ Truthy(w.new_supplier)
    THEN <<NewTariff(w)>> \o session
    ELSE session

\* the button's value ignored: every run with a name in the form appends
AddTariffButton_everyrun(session, clicked, w) ==
    IF Truthy(w.new_supplier)
    THEN Append(session, NewTariff(w))
    ELSE session

\* the list assigned instead of appended to
AddTariffButton_assign(session, clicked, w) ==
    IF clicked /\ Truthy(w.new_supplier)
    THEN <<NewTariff(w)>>
    ELSE session

\* `if st.button("Add Tariff to Comparison"):` ... ; clicked is the button's value
AddTariffButton(session, clicked, w) ==
    IF clicked /\ Truthy(w.new_supplier)
    THEN Append(session, NewTariff(w))
    ELSE session

AddTariffMessage(clicked, w) ==
    IF ~clicked THEN "none"
    ELSE IF Truthy(w.new_supplier) THEN "success" ELSE "warning"

\* variant: the custom tariffs placed before the built-in ones
CombineTariffs_customfirst(df, session) ==
    IF Len(session) > 0 THEN session \o df ELSE df

\* built-in tariffs followed by the custom ones (pd.concat, ignore_index), or a copy
CombineTariffs(df, session) ==
    IF Len(session) > 0 THEN df \o session ELSE df

\* variant: the day and night rates of the row passed in each other's place
ApplyYearlyCost_swapped(df, w) ==
    [i \in 1..Len(df) |->
        [Supplier |-> df[i].Supplier, DayRate |-> df[i].DayRate,
         NightRate |-> df[i].NightRate, StandingCharge |-> df[i].StandingCharge,
         EstimatedYearlyCost |->
            calculate_yearly_cost_app_2(w.day_consumption, w.night_consumption,
                df[i].NightRate, df[i].DayRate, df[i].StandingCharge)]]

\* comparison_df['Estimated Yearly Cost'] = comparison_df.apply(..., axis=1)
ApplyYearlyCost_app_2(df, w) ==
    [i \in 1..Len(df) |->
        [Supplier |-> df[i].Supplier, DayRate |-> df[i].DayRate,
         NightRate |-> df[i].NightRate, StandingCharge |-> df[i].StandingCharge,
         EstimatedYearlyCost |->
            calculate_yearly_cost_app_2(w.day_consumption, w.night_consumption,
                df[i].DayRate, df[i].NightRate, df[i].StandingCharge)]]

\* current_tariff_data followed by the Supplier and cost columns of df
ChartRows(cost, df) ==
    << [Supplier |-> YourCurrentTariff, EstimatedYearlyCost |-> cost] >>
    \o [i \in 1..Len(df) |->
         [Supplier |-> df[i].Supplier, EstimatedYearlyCost |-> df[i].EstimatedYearlyCost]]

\* variant: the calculations placed above the add handler, so that they read the
\* session as the previous run left it
Script_app_2_stale(session, clicked, w) ==
    LET session1 == AddTariffButton(session, clicked, w)
        df == DataFrame(data)
        cost == calculate_yearly_cost_app_2(w.day_consumption, w.night_consumption,
                    w.current_day_rate, w.current_night_rate, w.current_standing_charge)
        comparison == ApplyYearlyCost_app_2(CombineTariffs(df, session), w)
    IN  [custom_tariffs |-> session1,
         message |-> AddTariffMessage(clicked, w),
         tariffs_df |-> df,
         comparison_df |-> comparison,
         current_tariff_cost |-> cost,
         all_tariffs_for_chart |-> ChartRows(cost, comparison),
         metric |-> FormatPence(cost)]

Script_app_2(session, clicked, w) ==
    LET session1 == AddTariffButton(session, clicked, w)
        df == DataFrame(data)
        cost == calculate_yearly_cost_app_2(w.day_consumption, w.night_consumption,
                    w.current_day_rate, w.current_night_rate, w.current_standing_charge)
        comparison == ApplyYearlyCost_app_2(CombineTariffs(df, session1), w)
    IN  [custom_tariffs |-> session1,
         message |-> AddTariffMessage(clicked, w),
         tariffs_df |-> df,
         comparison_df |-> comparison,
         current_tariff_cost |-> cost,
         all_tariffs_for_chart |-> ChartRows(cost, comparison),
         metric |-> FormatPence(cost)]

\* ------------------------------------------------------------------------
\* One execution of energy_app.py (no session state, no custom tariffs)
\* ------------------------------------------------------------------------

\* tariffs_df['Estimated Yearly Cost'] = tariffs_df.apply(..., axis=1)
ApplyYearlyCost_app(df, w) ==
    [i \in 1..Len(df) |->
        [Supplier |-> df[i].Supplier, DayRate |-> df[i].DayRate,
         NightRate |-> df[i].NightRate, StandingCharge |-> df[i].StandingCharge,
         EstimatedYearlyCost |->
            calculate_yearly_cost_app(w.day_consumption, w.night_consumption,
                df[i].DayRate, df[i].NightRate, df[i].StandingCharge)]]

Script_app(session, clicked, w) ==
    LET cost == calculate_yearly_cost_app(w.day_consumption, w.night_consumption,
                    w.current_day_rate, w.current_night_rate, w.current_standing_charge)
        df == ApplyYearlyCost_app(DataFrame(data), w)
    IN  [custom_tariffs |-> session,
         message |-> "none",
         tariffs_df |-> df,
         comparison_df |-> <<>>,
         current_tariff_cost |-> cost,
         all_tariffs_for_chart |-> ChartRows(cost, df),
         metric |-> FormatPence(cost)]

\* ------------------------------------------------------------------------
\* Interactions: each one runs the script once, top to bottom
\* ------------------------------------------------------------------------

Script(file, session, clicked, w) ==
    IF file = "energy_app_2" THEN Script_app_2(session, clicked, w)
    ELSE Script_app(session, clicked, w)

\* the run triggered by an interaction that leaves the widgets at w
Run(w, clicked) ==
    \E r \in {Script(script, custom_tariffs, clicked, w)} :
        /\ script' = script
        /\ custom_tariffs' = r.custom_tariffs
        /\ day_consumption' = w.day_consumption
        /\ night_consumption' = w.night_consumption
        /\ current_day_rate' = w.current_day_rate
        /\ current_night_rate' = w.current_night_rate
        /\ current_standing_charge' = w.current_standing_charge
        /\ new_supplier' = w.new_supplier
        /\ new_day_rate' = w.new_day_rate
        /\ new_night_rate' = w.new_night_rate
        /\ new_standing_charge' = w.new_standing_charge
        /\ message' = r.message
        /\ tariffs_df' = r.tariffs_df
        /\ comparison_df' = r.comparison_df
        /\ current_tariff_cost' = r.current_tariff_cost
        /\ all_tariffs_for_chart' = r.all_tariffs_for_chart
        /\ metric' = r.metric

\* the first run of a session: session state is created empty, widgets at defaults
Init ==
    \E file \in {"energy_app", "energy_app_2"} :
        LET r == Script(file, <<>>, FALSE, DefaultWidgets)
        IN  /\ script = file
            /\ custom_tariffs = r.custom_tariffs
            /\ day_consumption = DefaultWidgets.day_consumption
            /\ night_consumption = DefaultWidgets.night_consumption
            /\ current_day_rate = DefaultWidgets.current_day_rate
            /\ current_night_rate = DefaultWidgets.current_night_rate
            /\ current_standing_charge = DefaultWidgets.current_standing_charge
            /\ new_supplier = DefaultWidgets.new_supplier
            /\ new_day_rate = DefaultWidgets.new_day_rate
            /\ new_night_rate = DefaultWidgets.new_night_rate
            /\ new_standing_charge = DefaultWidgets.new_standing_charge
            /\ message = r.message
            /\ tariffs_df = r.tariffs_df
            /\ comparison_df = r.comparison_df
            /\ current_tariff_cost = r.current_tariff_cost
            /\ all_tariffs_for_chart = r.all_tariffs_for_chart
            /\ metric = r.metric

EditDayUnits ==
    \E v \in DayUnitsInputs \ {day_consumption} :
        Run([Widgets EXCEPT !.day_consumption = v], FALSE)

EditNightUnits ==
    \E v \in NightUnitsInputs \ {night_consumption} :
        Run([Widgets EXCEPT !.night_consumption = v], FALSE)

EditDayRate ==
    \E v \in DayRateInputs \ {current_day_rate} :
        Run([Widgets EXCEPT !.current_day_rate = v], FALSE)

EditNightRate ==
    \E v \in NightRateInputs \ {current_night_rate} :
        Run([Widgets EXCEPT !.current_night_rate = v], FALSE)

EditStandingCharge ==
    \E v \in StandingChargeInputs \ {current_standing_charge} :
        Run([Widgets EXCEPT !.current_standing_charge = v], FALSE)

\* the contents of the custom-tariff form
Form(w) == <<w.new_supplier, w.new_day_rate, w.new_night_rate, w.new_standing_charge>>

\* the custom-tariff form exists in energy_app_2.py only
EditNewSupplier ==
    /\ script = "energy_app_2"
    /\ \E v \in SupplierInputs \ {new_supplier} :
        /\ Form([Widgets EXCEPT !.new_supplier = v]) \in NewTariffForms
        /\ Run([Widgets EXCEPT !.new_supplier = v], FALSE)

EditNewDayRate ==
    /\ script = "energy_app_2"
    /\ \E v \in NewDayRateInputs \ {new_day_rate} :
        /\ Form([Widgets EXCEPT !.new_day_rate = v]) \in NewTariffForms
        /\ Run([Widgets EXCEPT !.new_day_rate = v], FALSE)

EditNewNightRate ==
    /\ script = "energy_app_2"
    /\ \E v \in NewNightRateInputs \ {new_night_rate} :
        /\ Form([Widgets EXCEPT !.new_night_rate = v]) \in NewTariffForms
        /\ Run([Widgets EXCEPT !.new_night_rate = v], FALSE)

EditNewStandingCharge ==
    /\ script = "energy_app_2"
    /\ \E v \in NewStandingChargeInputs \ {new_standing_charge} :
        /\ Form([Widgets EXCEPT !.new_standing_charge = v]) \in NewTariffForms
        /\ Run([Widgets EXCEPT !.new_standing_charge = v], FALSE)

\* a click on "Add Tariff to Comparison"; the session is capped at MaxCustom entries
ClickAddTariff ==
    /\ script = "energy_app_2"
    /\ Truthy(new_supplier) => Len(custom_tariffs) < MaxCustom
    /\ Run(Widgets, TRUE)

\* a rerun with nothing changed (the Rerun command of the page); the button reads
\* False again and its message is gone
Rerun == Run(Widgets, FALSE)

Next ==
    \/ EditDayUnits
    \/ EditNightUnits
    \/ EditDayRate
    \/ EditNightRate
    \/ EditStandingCharge
    \/ EditNewSupplier
    \/ EditNewDayRate
    \/ EditNewNightRate
    \/ EditNewStandingCharge
    \/ ClickAddTariff
    \/ Rerun

Spec == Init /\ [][Next]_vars

\* ------------------------------------------------------------------------
\* The cost formula
\* ------------------------------------------------------------------------

\* ((d*12*dr) + (n*12*nr) + (sc*365.25)) * 1.05 / 100 with dr, nr, sc in hundredths
\* of a penny is 21 * (48*(d*dr + n*nr) + 1461*sc) / 800000 pounds, and 1/800000
\* is 125 units of the eighth decimal
ClosedForm(d, n, dr, nr, sc) ==
    LET num == 21 * (48 * (d * dr + n * nr) + 1461 * sc)
        lo  == (num % Limb) * 125
        hi  == (num \div Limb) * 125 + (lo \div Limb)
    IN  [w |-> hi \div Limb, f1 |-> hi % Limb, f2 |-> lo % Limb]

\* the yearly cost of the session's consumption at the given rates, by the running file
CostHere(dr, nr, sc) ==
    IF script = "energy_app_2"
    THEN calculate_yearly_cost_app_2(day_consumption, night_consumption, dr, nr, sc)
    ELSE calculate_yearly_cost_app(day_consumption, night_consumption, dr, nr, sc)

\* the rate triples that differ from the session's current tariff in one rate only
ProbeTariffs ==
    {<<r, current_night_rate, current_standing_charge>> : r \in ProbeRates}
    \cup {<<current_day_rate, r, current_standing_charge>> : r \in ProbeRates}
    \cup {<<current_day_rate, current_night_rate, r>> : r \in ProbeRates}
    \cup {<<0, 0, 0>>, <<current_day_rate, current_night_rate, current_standing_charge>>}

\* C1: calculate_yearly_cost returns exactly
\* ((d*12*dr) + (n*12*nr) + (sc*365.25)) * 1.05 / 100, unrounded, and the copies of
\* energy_app.py and energy_app_2.py return the same value: the cost the run computed
\* for the current tariff is that value, and so is either copy's at every probed tariff.
C1_ExactFormula ==
    /\ current_tariff_cost =
          ClosedForm(day_consumption, night_consumption,
                     current_day_rate, current_night_rate, current_standing_charge)
    /\ \A t \in ProbeTariffs :
          /\ calculate_yearly_cost_app_2(day_consumption, night_consumption, t[1], t[2], t[3])
                = ClosedForm(day_consumption, night_consumption, t[1], t[2], t[3])
          /\ calculate_yearly_cost_app(day_consumption, night_consumption, t[1], t[2], t[3])
                = calculate_yearly_cost_app_2(day_consumption, night_consumption, t[1], t[2], t[3])

\* a run of energy_app_2.py away from the defaults whose result has digits beyond
\* the fourth decimal place
C1_Witness ==
    /\ script = "energy_app_2"
    /\ day_consumption = 402 /\ night_consumption = 59
    /\ current_day_rate = 2231 /\ current_standing_charge = 5784
    /\ current_tariff_cost.f2 # 0
    /\ current_tariff_cost =
          ClosedForm(402, 59, 2231, current_night_rate, 5784)

DefaultInputs ==
    /\ day_consumption = 392 /\ night_consumption = 49
    /\ current_day_rate = 2221 /\ current_night_rate = 1580
    /\ current_standing_charge = 5774

\* C2 as stated: the yearly cost of the default inputs, which the headline shows,
\* is 1451.23 pounds when rounded to the penny.
C2_Original == DefaultInputs => metric = 145123

\* C2 as amended: the yearly cost of the default inputs is 1415.9856375 pounds and
\* the headline shows it rounded to the penny, 1415.99.
C2_DefaultCost ==
    DefaultInputs =>
        /\ current_tariff_cost = [w |-> 1415, f1 |-> 9856, f2 |-> 3750]
        /\ metric = 141599

\* the defaults restored by the user after an edit, in energy_app_2.py
C2_Witness ==
    /\ DefaultInputs
    /\ script = "energy_app_2"
    /\ new_supplier # <<>>
    /\ metric = 141599

\* C7: calculate_yearly_cost is non-decreasing in each of the day rate, the night
\* rate and the standing charge, the other four inputs held fixed: against the cost
\* the run computed for the current tariff, a tariff with one rate higher costs no
\* less and a tariff with one rate lower costs no more.
C7_Monotone ==
    /\ \A r \in ProbeRates \cup DayRateInputs :
          /\ r >= current_day_rate =>
                DecLeq(current_tariff_cost, CostHere(r, current_night_rate, current_standing_charge))
          /\ r <= current_day_rate =>
                DecLeq(CostHere(r, current_night_rate, current_standing_charge), current_tariff_cost)
    /\ \A r \in ProbeRates \cup NightRateInputs :
          /\ r >= current_night_rate =>
                DecLeq(current_tariff_cost, CostHere(current_day_rate, r, current_standing_charge))
          /\ r <= current_night_rate =>
                DecLeq(CostHere(current_day_rate, r, current_standing_charge), current_tariff_cost)
    /\ \A r \in ProbeRates \cup StandingChargeInputs :
          /\ r >= current_standing_charge =>
                DecLeq(current_tariff_cost, CostHere(current_day_rate, current_night_rate, r))
          /\ r <= current_standing_charge =>
                DecLeq(CostHere(current_day_rate, current_night_rate, r), current_tariff_cost)

\* the user has raised the standing charge and the run has costed the higher rate
\* strictly above the cost at the lower one
C7_Witness ==
    /\ script = "energy_app_2"
    /\ current_standing_charge = 5784
    /\ current_tariff_cost = CostHere(current_day_rate, current_night_rate, 5784)
    /\ ~DecLeq(current_tariff_cost, CostHere(current_day_rate, current_night_rate, 5774))

\* ------------------------------------------------------------------------
\* The comparison and the custom-tariff collection
\* ------------------------------------------------------------------------

\* the costed table of the latest run: comparison_df, or tariffs_df in energy_app.py
Comparison == IF script = "energy_app_2" THEN comparison_df ELSE tariffs_df

BuiltIn == DataFrame(data)

Rates(row) == <<row.Supplier, row.DayRate, row.NightRate, row.StandingCharge>>

\* str.strip() leaves nothing
IsBlank(s) == \A i \in 1..Len(s) : s[i] = " "

IsPrefix(s, t) == Len(s) <= Len(t) /\ \A i \in 1..Len(s) : s[i] = t[i]

Cost(file, d, n, dr, nr, sc) ==
    IF file = "energy_app_2"
    THEN calculate_yearly_cost_app_2(d, n, dr, nr, sc)
    ELSE calculate_yearly_cost_app(d, n, dr, nr, sc)

\* C3: the comparison has 1 + built-in + custom entries: the user's own first,
\* labelled 'Your Current Tariff', then the built-in tariffs in their fixed order,
\* then the custom tariffs in the order of the collection, names repeated as they are.
C3_ComparisonOrder ==
    /\ Len(all_tariffs_for_chart) = 1 + Len(BuiltIn) + Len(custom_tariffs)
    /\ Len(Comparison) = Len(BuiltIn) + Len(custom_tariffs)
    /\ all_tariffs_for_chart[1].Supplier = YourCurrentTariff
    /\ \A i \in 1..Len(BuiltIn) :
          /\ all_tariffs_for_chart[1 + i].Supplier = BuiltIn[i].Supplier
          /\ Rates(Comparison[i]) = Rates(BuiltIn[i])
    /\ \A j \in 1..Len(custom_tariffs) :
          /\ all_tariffs_for_chart[1 + Len(BuiltIn) + j].Supplier = custom_tariffs[j].Supplier
          /\ Rates(Comparison[Len(BuiltIn) + j]) = Rates(custom_tariffs[j])

\* two custom tariffs of one name, the dearer added first, are listed after the
\* seven built-in ones in the order they were added
C3_Witness ==
    /\ Len(custom_tariffs) = 2
    /\ Len(all_tariffs_for_chart) = 10
    /\ custom_tariffs[1].Supplier = custom_tariffs[2].Supplier
    /\ custom_tariffs[1].DayRate > custom_tariffs[2].DayRate
    /\ all_tariffs_for_chart[9].Supplier = <<"A">>
    /\ all_tariffs_for_chart[10].Supplier = <<"A">>
    /\ all_tariffs_for_chart[9].EstimatedYearlyCost # all_tariffs_for_chart[10].EstimatedYearlyCost

\* C4 as stated: a click on the add button with an empty or whitespace-only supplier
\* name leaves the custom-tariff collection as it was.
C4_BlankRejected ==
    [][ (message' # "none" /\ IsBlank(new_supplier')) => custom_tariffs' = custom_tariffs ]_vars

\* C5: a click on the add button with a non-blank supplier name appends one entry
\* with exactly the name and rates of the form at the end of the collection, whether
\* or not the name is already present.
C5_AppendAtEnd ==
    [][ (message' # "none" /\ ~IsBlank(new_supplier')) =>
            /\ message' = "success"
            /\ Len(custom_tariffs') = Len(custom_tariffs) + 1
            /\ custom_tariffs' =
                 Append(custom_tariffs,
                        [Supplier |-> new_supplier', DayRate |-> new_day_rate',
                         NightRate |-> new_night_rate',
                         StandingCharge |-> new_standing_charge']) ]_vars

\* a second tariff named A has just been added behind a first one of other rates
C5_Witness ==
    /\ message = "success"
    /\ Len(custom_tariffs) = 2
    /\ custom_tariffs[1].Supplier = <<"A">> /\ custom_tariffs[1].DayRate = 10
    /\ custom_tariffs[2] = [Supplier |-> <<"A">>, DayRate |-> 0, NightRate |-> 20,
                            StandingCharge |-> 30]
    /\ new_supplier = <<"A">> /\ new_day_rate = 0

\* C6: a run without an accepted add changes neither the custom-tariff collection nor
\* the built-in names and rates, and when the consumption and the user's tariff are
\* those of the run before, it produces the same entries and costs.
C6_Idempotent ==
    [][ message' = "none" =>
            /\ custom_tariffs' = custom_tariffs
            /\ \A i \in 1..Len(BuiltIn) :
                  /\ Rates(tariffs_df'[i]) = Rates(BuiltIn[i])
                  /\ Rates(tariffs_df'[i]) = Rates(tariffs_df[i])
            /\ ( /\ day_consumption' = day_consumption
                 /\ night_consumption' = night_consumption
                 /\ current_day_rate' = current_day_rate
                 /\ current_night_rate' = current_night_rate
                 /\ current_standing_charge' = current_standing_charge )
               => /\ all_tariffs_for_chart' = all_tariffs_for_chart
                  /\ comparison_df' = comparison_df
                  /\ tariffs_df' = tariffs_df
                  /\ current_tariff_cost' = current_tariff_cost
                  /\ metric' = metric ]_vars

\* a run that followed the acceptance of two custom tariffs and showed all ten entries
C6_Witness ==
    /\ message = "none"
    /\ Len(custom_tariffs) = 2
    /\ new_supplier = <<"A">>
    /\ Len(all_tariffs_for_chart) = 10

RowHasYearlyCost(file, d, n, row) ==
    row.EstimatedYearlyCost = Cost(file, d, n, row.DayRate, row.NightRate, row.StandingCharge)

\* C8 as stated: every entry of the comparison carries a yearly cost equal to
\* calculate_yearly_cost of the current profile and its rates, and a monthly cost
\* equal to that yearly cost divided by 12.
C8_Original ==
    /\ \A i \in 1..Len(Comparison) :
          /\ RowHasYearlyCost(script, day_consumption, night_consumption, Comparison[i])
          /\ "EstimatedMonthlyCost" \in DOMAIN Comparison[i]
          /\ Comparison[i].EstimatedMonthlyCost = DecDivInt(Comparison[i].EstimatedYearlyCost, 12)
    /\ \A i \in 1..Len(all_tariffs_for_chart) :
          /\ "EstimatedMonthlyCost" \in DOMAIN all_tariffs_for_chart[i]
          /\ all_tariffs_for_chart[i].EstimatedMonthlyCost =
                DecDivInt(all_tariffs_for_chart[i].EstimatedYearlyCost, 12)

\* C8 as amended: every entry of the comparison carries a yearly cost equal to
\* calculate_yearly_cost of the current profile and its rates (the user's own entry:
\* of the user's rates), and no entry carries a monthly cost.
C8_YearlyCost ==
    /\ all_tariffs_for_chart[1].EstimatedYearlyCost =
          Cost(script, day_consumption, night_consumption,
               current_day_rate, current_night_rate, current_standing_charge)
    /\ DOMAIN all_tariffs_for_chart[1] = {"Supplier", "EstimatedYearlyCost"}
    /\ \A i \in 1..Len(Comparison) :
          /\ RowHasYearlyCost(script, day_consumption, night_consumption, Comparison[i])
          /\ all_tariffs_for_chart[1 + i].EstimatedYearlyCost = Comparison[i].EstimatedYearlyCost
          /\ DOMAIN Comparison[i] =
                {"Supplier", "DayRate", "NightRate", "StandingCharge", "EstimatedYearlyCost"}
          /\ DOMAIN all_tariffs_for_chart[1 + i] = {"Supplier", "EstimatedYearlyCost"}

\* a comparison with a custom tariff, costed after the consumption has been edited
C8_Witness ==
    /\ script = "energy_app_2"
    /\ day_consumption = 402 /\ night_consumption = 59
    /\ Len(custom_tariffs) = 1
    /\ comparison_df[8].EstimatedYearlyCost =
          calculate_yearly_cost_app_2(402, 59, 10, 20, 30)
    /\ comparison_df[1].EstimatedYearlyCost # comparison_df[3].EstimatedYearlyCost

\* C9: the custom-tariff collection starts empty and only grows at its end: what it
\* held before a run is a prefix of what it holds after, and the built-in names and
\* rates are the same in every run.
C9_AppendOnly ==
    /\ custom_tariffs = <<>>
    /\ [][ /\ IsPrefix(custom_tariffs, custom_tariffs')
           /\ Len(tariffs_df') = Len(BuiltIn)
           /\ \A i \in 1..Len(BuiltIn) :
                 /\ Rates(tariffs_df[i]) = Rates(BuiltIn[i])
                 /\ Rates(tariffs_df'[i]) = Rates(BuiltIn[i]) ]_vars

\* an add was rejected while the collection held two tariffs
C9_Witness ==
    /\ message = "warning"
    /\ Len(custom_tariffs) = 2
    /\ custom_tariffs[1] # custom_tariffs[2]

\* C10: every entry of a run's comparison is costed with the consumption of that run,
\* a tariff accepted by the add button is the last entry of the comparison of the same
\* run, and the tariffs held before a run are in its comparison at their positions.
C10_LatestValues ==
    [][ /\ \A i \in 1..Len(all_tariffs_for_chart') \ {1} :
              LET row == (IF script' = "energy_app_2" THEN comparison_df' ELSE tariffs_df')[i - 1]
              IN  /\ RowHasYearlyCost(script', day_consumption', night_consumption', row)
                  /\ all_tariffs_for_chart'[i].EstimatedYearlyCost = row.EstimatedYearlyCost
        /\ message' = "success" =>
              LET last == Len(all_tariffs_for_chart')
              IN  /\ last = 1 + Len(BuiltIn) + Len(custom_tariffs) + 1
                  /\ all_tariffs_for_chart'[last].Supplier = new_supplier'
                  /\ all_tariffs_for_chart'[last].EstimatedYearlyCost =
                        calculate_yearly_cost_app_2(day_consumption', night_consumption',
                            new_day_rate', new_night_rate', new_standing_charge')
                  /\ Rates(comparison_df'[last - 1]) =
                        <<new_supplier', new_day_rate', new_night_rate', new_standing_charge'>>
        /\ \A j \in 1..Len(custom_tariffs) :
              /\ Len(all_tariffs_for_chart') >= 1 + Len(BuiltIn) + j
              /\ Rates(comparison_df'[Len(BuiltIn) + j]) = Rates(custom_tariffs[j]) ]_vars

\* the run of an accepted add, with edited consumption, shows the new tariff last
C10_Witness ==
    /\ message = "success"
    /\ day_consumption = 402
    /\ Len(custom_tariffs) = 2
    /\ all_tariffs_for_chart[10].Supplier = new_supplier
    /\ all_tariffs_for_chart[10].EstimatedYearlyCost =
          calculate_yearly_cost_app_2(402, night_consumption,
              new_day_rate, new_night_rate, new_standing_charge)

====
